---- MODULE Spec2Model ----
(***************************************************************************)
(* The access-camera request lifecycle of libportal (libportal/camera.c):  *)
(* xdp_portal_access_camera creates an AccessCameraCall and a GTask,       *)
(* access_camera subscribes to the Response signal of the request path and *)
(* sends the AccessCamera call, and three handlers (response_received,     *)
(* cancelled_cb, call_returned) resolve and destroy the call.              *)
(*                                                                         *)
(* The handlers are C functions run to completion by the GLib main loop.   *)
(* Each is an operator from the program state (a record s of the           *)
(* variables below) to the program state, named as in the source; an       *)
(* action applies one handler and stores the record back.                  *)
(***************************************************************************)
EXTENDS Integers, Sequences, FiniteSets, TLC

\* ------------------------------------------------------------- bounds
NumReq == 2        \* requests started on the one portal
MaxToken == 2      \* g_random_int_range draws from 0 .. MaxToken-1
MaxCode == 2       \* the broker's response codes are 0 .. MaxCode
NumParents == 2    \* XdpParent objects a caller may pass
NumPortals == 2    \* XdpPortal objects of the process
MaxSyncCalls == 2  \* synchronous operations a caller makes
MaxFds == 2        \* descriptors attached to a reply: 0 .. MaxFds
MaxExports == 2    \* calls of an XdpParent's export
MaxXid == 26       \* the largest X11 window id

Requests == 1..NumReq
Tokens == 0..(MaxToken - 1)
Codes == 0..MaxCode
Parents == 1..NumParents
Portals == 1..NumPortals

\* A NULL XdpParent, and a pointer that is no XdpPortal.
NoParent == 0
NoPortal == 0

\* portal-private.h: the prefix of request paths, and portal->sender (the
\* connection's unique name ":1.42" without the colon, dots replaced).
REQUEST_PATH_PREFIX == "/org/freedesktop/portal/desktop/request/"
Sender == "1_42"

\* No response code read yet.
NoResponse == -1

\* The results a GTask can hold ("none": no g_task_return_* yet).
Results == {"none", "TRUE", "G_IO_ERROR_CANCELLED", "G_IO_ERROR_FAILED", "G_DBUS_ERROR"}

\* What a call of xdp_portal_access_camera_finish is given: a portal pointer and
\* a GAsyncResult, which is a GTask (of a source object, with a source tag, a
\* result and a cancellable) or some other object.
SourceTags == {"xdp_portal_access_camera", "other_start", "NULL"}
AsyncResults ==
  [is_task : BOOLEAN, source_object : Portals, source_tag : SourceTags,
   result : Results, cancellable : {"none", "live", "cancelled"}]

\* g_return_val_if_fail (..., FALSE): a critical is logged, FALSE is returned and
\* the error is left unset.
PreconditionViolation == [value |-> FALSE, error |-> "none", critical |-> TRUE]

\* No call of xdp_portal_access_camera_finish has been made.
NoFinishCall ==
  [called |-> FALSE, portal |-> NoPortal,
   result |-> [is_task |-> FALSE, source_object |-> 1, source_tag |-> "NULL",
               result |-> "none", cancellable |-> "none"],
   ret |-> [value |-> FALSE, error |-> "none", critical |-> FALSE]]

\* An XdpParent not made yet: display is the windowing system of its widget,
\* xid its X11 window id, callback the export whose callback parent->callback
\* holds (0: none), exported whether the GDK window has a Wayland export, and
\* handle_sent whether the display server has sent that export's handle.
NoGtkParent ==
  [display |-> "none", xid |-> 0, callback |-> 0, exported |-> FALSE, handle_sent |-> FALSE]

VARIABLES
  pc,            \* pc[r]: position of the main thread in xdp_portal_access_camera/access_camera
  cancellable,   \* the GCancellable given for r: "none" (NULL), "live", "cancelled"
  alive,         \* the AccessCameraCall of r is allocated (g_new0 .. g_free)
  token,         \* the number drawn for r's token
  request_path,  \* call->request_path (<<>> is NULL); kept as is when freed
  signal_id,     \* call->signal_id (0: none); kept as is when freed
  cancelled_id,  \* call->cancelled_id (0: none); kept as is when freed
  handle_token,  \* the handle_token option sent with the AccessCamera call
  subs,          \* requests whose Response subscription is live on the bus
  links,         \* requests whose cancelled_cb is connected to the cancellable
  callState,     \* the AccessCamera call: "unsent", "pending", "cancelled", "done"
  broker,        \* the broker's request: "none", "received", "responded"
  sigQueue,      \* Response signals scheduled for a subscriber: <<r, code>>
  response,      \* the response code response_received read (NoResponse: none)
  result,        \* the GTask's result: "none" until g_task_return_*
  delivered,     \* how often the caller's callback was invoked
  finished,      \* what xdp_portal_access_camera_finish gave the callback
  closeCalls,    \* the object paths Close was sent to on behalf of r
  unsubscribed,  \* calls of g_dbus_connection_signal_unsubscribe for r
  disconnected,  \* calls of g_signal_handler_disconnect for r
  freed,         \* calls of g_free (call) for r
  freedBy,       \* the handler that destroyed the call first
  uaf,           \* a handler has used the call after it was freed
  crashed,       \* the process has died of such a use
  rpc,           \* threads: position of response_received on r ("-" when not running)
  rcode,         \* threads: the response code that run of response_received holds
  kpc,           \* threads: position of cancelled_cb on r ("-" when not running)
  atStart,       \* the state of r's cancellable when xdp_portal_access_camera was called
  parent,        \* the XdpParent given to xdp_portal_access_camera for r (NoParent: NULL)
  finish_call,   \* a call of xdp_portal_access_camera_finish: its arguments and what it returned
  syncLog,       \* the synchronous operations made so far: what each was given and did
  gtkParents,    \* the XdpParent objects made by xdp_parent_new_gtk, and their GDK windows
  exports,       \* the calls of parent->export so far, numbered in order
  unexports,     \* the parents parent->unexport was called on, in order
  cbLog          \* the invocations of exported-callbacks: of which export, with which handle

vars == <<pc, cancellable, alive, token, request_path, signal_id, cancelled_id,
          handle_token, subs, links, callState, broker, sigQueue, response,
          result, delivered, finished, closeCalls, unsubscribed, disconnected, freed,
          freedBy, uaf, crashed, rpc, rcode, kpc, atStart, parent, finish_call, syncLog,
          gtkParents, exports, unexports, cbLog>>

\* What the handlers read and write, as one record.
State ==
  [cancellable |-> cancellable, alive |-> alive, request_path |-> request_path,
   signal_id |-> signal_id, cancelled_id |-> cancelled_id, subs |-> subs,
   links |-> links, response |-> response, result |-> result, delivered |-> delivered,
   finished |-> finished, closeCalls |-> closeCalls,
   unsubscribed |-> unsubscribed, disconnected |-> disconnected,
   freed |-> freed, freedBy |-> freedBy, uaf |-> uaf, crashed |-> crashed]

Set(s) ==
  /\ cancellable' = s.cancellable
  /\ alive' = s.alive
  /\ request_path' = s.request_path
  /\ signal_id' = s.signal_id
  /\ cancelled_id' = s.cancelled_id
  /\ subs' = s.subs
  /\ links' = s.links
  /\ response' = s.response
  /\ result' = s.result
  /\ delivered' = s.delivered
  /\ finished' = s.finished
  /\ closeCalls' = s.closeCalls
  /\ unsubscribed' = s.unsubscribed
  /\ disconnected' = s.disconnected
  /\ freed' = s.freed
  /\ freedBy' = s.freedBy
  /\ uaf' = s.uaf
  /\ crashed' = s.crashed

Init ==
  /\ pc = [r \in Requests |-> "idle"]
  /\ cancellable = [r \in Requests |-> "none"]
  /\ alive = [r \in Requests |-> FALSE]
  /\ token = [r \in Requests |-> 0]
  /\ request_path = [r \in Requests |-> <<>>]
  /\ signal_id = [r \in Requests |-> 0]
  /\ cancelled_id = [r \in Requests |-> 0]
  /\ handle_token = [r \in Requests |-> <<>>]
  /\ subs = {}
  /\ links = {}
  /\ callState = [r \in Requests |-> "unsent"]
  /\ broker = [r \in Requests |-> "none"]
  /\ sigQueue = {}
  /\ response = [r \in Requests |-> NoResponse]
  /\ result = [r \in Requests |-> "none"]
  /\ delivered = [r \in Requests |-> 0]
  /\ finished = [r \in Requests |-> "none"]
  /\ closeCalls = [r \in Requests |-> <<>>]
  /\ unsubscribed = [r \in Requests |-> 0]
  /\ disconnected = [r \in Requests |-> 0]
  /\ freed = [r \in Requests |-> 0]
  /\ freedBy = [r \in Requests |-> "none"]
  /\ uaf = [r \in Requests |-> FALSE]
  /\ crashed = FALSE
  /\ rpc = [r \in Requests |-> "-"]
  /\ rcode = [r \in Requests |-> 0]
  /\ kpc = [r \in Requests |-> "-"]
  /\ atStart = [r \in Requests |-> "none"]
  /\ parent = [r \in Requests |-> NoParent]
  /\ finish_call = NoFinishCall
  /\ syncLog = <<>>
  /\ gtkParents = [p \in Parents |-> NoGtkParent]
  /\ exports = <<>>
  /\ unexports = <<>>
  /\ cbLog = <<>>

\* ------------------------------------------------------------ helpers
\* The outcomes of a handler that uses a call already freed: the process dies
\* (a fault, or the allocator's double-free abort), or the memory still holds
\* what it held and the handler runs on it.
UBOutcomes == {"crash", "stale"}

\* access_camera, line 175: token = g_strdup_printf ("portal%d", n)
TokenOf(n) == <<"portal", n>>

\* access_camera, line 176: g_strconcat (REQUEST_PATH_PREFIX, sender, "/", token)
RequestPath(sender, tok) == <<REQUEST_PATH_PREFIX, sender, "/", tok>>

\* xdp_portal_access_camera_finish, line 266: g_task_propagate_boolean. The task
\* was made by g_task_new and keeps GTask's default check-cancellable: a task
\* whose cancellable is cancelled propagates the cancelled error.
xdp_portal_access_camera_finish(res, canc) ==
  IF canc = "cancelled" THEN "G_IO_ERROR_CANCELLED" ELSE res

\* A finish that does not compare the source tag.
FinishPreconditionsNoTag(portal, res) ==
  /\ portal \in Portals
  /\ res.is_task /\ res.source_object = portal

\* xdp_portal_access_camera_finish, lines 262-264: XDP_IS_PORTAL, g_task_is_valid
\* (a GTask whose source object is the portal) and the source tag
FinishPreconditions(portal, res) ==
  /\ portal \in Portals
  /\ res.is_task /\ res.source_object = portal
  /\ res.source_tag = "xdp_portal_access_camera"

\* xdp_portal_access_camera_finish, lines 257-267, as a caller sees it: the
\* preconditions, then g_task_propagate_boolean, which itself requires a task
\* that has a result.
FinishCall(portal, res) ==
  IF ~FinishPreconditions(portal, res) THEN PreconditionViolation
  ELSE LET out == xdp_portal_access_camera_finish(res.result, res.cancellable)
       IN IF out = "none" THEN PreconditionViolation
          ELSE [value |-> (out = "TRUE"),
                error |-> IF out = "TRUE" THEN "none" ELSE out,
                critical |-> FALSE]

\* g_task_return_boolean / g_task_return_new_error / g_task_return_error on
\* call->task: the first return stores the result and has the caller's callback
\* invoked, which calls xdp_portal_access_camera_finish; GTask refuses a second
\* return (ever_returned).
TaskReturn(s, r, res) ==
  IF s.result[r] # "none" THEN s
  ELSE [s EXCEPT !.result[r] = res,
                 !.delivered[r] = @ + 1,
                 !.finished[r] = xdp_portal_access_camera_finish(res, s.cancellable[r])]

\* A handler starts using the call of r: when the call is freed this is a use
\* after free, with outcome ub.
Touch(s, r, ub) ==
  IF s.alive[r] THEN s
  ELSE [s EXCEPT !.uaf[r] = TRUE, !.crashed = (ub = "crash")]

\* Records the handler that destroyed the call first.
DestroyedBy(s, r, by) ==
  IF s.freedBy[r] = "none" THEN [s EXCEPT !.freedBy[r] = by] ELSE s

\* ----------------------------------------------------------- handlers
\* A free that forgets the signal subscription.
access_camera_call_free_leaks(s, r) ==
  LET s2 == IF s.cancelled_id[r] # 0
            THEN [s EXCEPT !.links = @ \ {r}, !.disconnected[r] = @ + 1]
            ELSE s
  IN [s2 EXCEPT !.alive[r] = FALSE, !.freed[r] = @ + 1]

\* access_camera_call_free, lines 83-98
access_camera_call_free(s, r) ==
  LET s1 == IF s.signal_id[r] # 0
            THEN [s EXCEPT !.subs = @ \ {r}, !.unsubscribed[r] = @ + 1]
            ELSE s
      s2 == IF s1.cancelled_id[r] # 0
            THEN [s1 EXCEPT !.links = @ \ {r}, !.disconnected[r] = @ + 1]
            ELSE s1
  IN [s2 EXCEPT !.alive[r] = FALSE, !.freed[r] = @ + 1]

\* response_received, lines 113-117
rr_disconnect(s, r) ==
  IF s.cancelled_id[r] # 0
  THEN [s EXCEPT !.links = @ \ {r}, !.disconnected[r] = @ + 1, !.cancelled_id[r] = 0]
  ELSE s

\* A mapping that takes every non-zero code for a failure.
ResponseResultNoCancel(code) ==
  IF code = 0 THEN "TRUE" ELSE "G_IO_ERROR_FAILED"

\* response_received, lines 121-126
ResponseResult(code) ==
  IF code = 0 THEN "TRUE"
  ELSE IF code = 1 THEN "G_IO_ERROR_CANCELLED"
  ELSE "G_IO_ERROR_FAILED"

\* response_received, lines 119-126
rr_return(s, r, code) ==
  TaskReturn([s EXCEPT !.response[r] = code], r, ResponseResult(code))

\* response_received, lines 100-129
response_received(s, r, code, ub) ==
  LET s0 == Touch(s, r, ub) IN
  IF s0.crashed THEN s0
  ELSE DestroyedBy(access_camera_call_free(rr_return(rr_disconnect(s0, r), r, code), r),
                   r, "response_received")

\* cancelled_cb, lines 137-146: the Close call on call->request_path
cc_close(s, r) == [s EXCEPT !.closeCalls[r] = Append(@, s.request_path[r])]

\* cancelled_cb, lines 131-149
cancelled_cb(s, r, ub) ==
  LET s0 == Touch(s, r, ub) IN
  IF s0.crashed THEN s0
  ELSE DestroyedBy(access_camera_call_free(cc_close(s0, r), r), r, "cancelled_cb")

\* A completion that reports the call's error and keeps the call.
call_returned_keeps_call(s, r, err, ub) ==
  IF err = "none" THEN s
  ELSE LET s0 == Touch(s, r, ub) IN
       IF s0.crashed THEN s0 ELSE TaskReturn(s0, r, err)

\* A completion that takes a reply for the request's success.
call_returned_resolves_on_reply(s, r, err, ub) ==
  LET s0 == Touch(s, r, ub) IN
  IF s0.crashed THEN s0
  ELSE DestroyedBy(access_camera_call_free(
                     TaskReturn(s0, r, IF err = "none" THEN "TRUE" ELSE err), r),
                   r, "call_returned")

\* call_returned, lines 151-166; err is "none" for a reply
call_returned(s, r, err, ub) ==
  IF err = "none" THEN s
  ELSE LET s0 == Touch(s, r, ub) IN
       IF s0.crashed THEN s0
       ELSE DestroyedBy(access_camera_call_free(TaskReturn(s0, r, err), r),
                        r, "call_returned")

\* ------------------------------------------------------------ actions
\* The main thread is in its loop, between two callbacks: no start is under way.
MainIdle == \A q \in Requests : pc[q] \in {"idle", "started"} /\ rpc[q] = "-"

\* An order of access_camera's statements that sends the call first.
AccessCameraOrderCallFirst == <<"path", "call", "subscribe", "connect">>

\* access_camera, lines 175-206: the order of its statements
AccessCameraOrder == <<"path", "subscribe", "connect", "call">>

\* The position after position p of access_camera.
After(p) ==
  LET i == CHOOSE k \in 1..Len(AccessCameraOrder) : AccessCameraOrder[k] = p
  IN IF i = Len(AccessCameraOrder) THEN "started" ELSE AccessCameraOrder[i + 1]

heapVars == <<cancellable, alive, request_path, signal_id, cancelled_id, subs, links,
              response, result, delivered, finished, closeCalls, unsubscribed, disconnected,
              freed, freedBy, uaf, crashed>>
threadVars == <<rpc, rcode, kpc>>
cameraVars == <<pc, token, handle_token, callState, broker, sigQueue, heapVars,
                threadVars, atStart, parent>>
gtkVars == <<gtkParents, exports, unexports, cbLog>>
sideVars == <<finish_call, syncLog, gtkVars>>

\* xdp_portal_access_camera, lines 223-240: the call and its task are created
\* with the caller's cancellable c, and access_camera is entered; the parent p
\* is not read. Requests are numbered in the order they are started.
Start(r, p, c) ==
  /\ ~crashed /\ MainIdle
  /\ pc[r] = "idle"
  /\ \A q \in Requests : q < r => pc[q] # "idle"
  /\ pc' = [pc EXCEPT ![r] = AccessCameraOrder[1]]
  /\ alive' = [alive EXCEPT ![r] = TRUE]
  /\ cancellable' = [cancellable EXCEPT ![r] = c]
  /\ atStart' = [atStart EXCEPT ![r] = c]
  /\ parent' = [parent EXCEPT ![r] = p]
  /\ UNCHANGED <<sideVars, token, request_path, signal_id, cancelled_id, handle_token, subs,
                 links, callState, broker, sigQueue, response, result, delivered, finished,
                 closeCalls, unsubscribed, disconnected, freed, freedBy, uaf,
                 crashed, threadVars>>

\* access_camera, lines 175-176: the token is drawn and the path built
AccessCameraPath(r, n) ==
  /\ ~crashed
  /\ pc[r] = "path"
  /\ pc' = [pc EXCEPT ![r] = After("path")]
  /\ token' = [token EXCEPT ![r] = n]
  /\ request_path' = [request_path EXCEPT ![r] = RequestPath(Sender, TokenOf(n))]
  /\ UNCHANGED <<atStart, parent, sideVars, cancellable, alive, signal_id, cancelled_id, handle_token, subs,
                 links, callState, broker, sigQueue, response, result, delivered, finished,
                 closeCalls, unsubscribed, disconnected, freed, freedBy, uaf,
                 crashed, threadVars>>

\* access_camera, lines 177-186: g_dbus_connection_signal_subscribe on
\* call->request_path
AccessCameraSubscribe(r) ==
  /\ ~crashed
  /\ pc[r] = "subscribe"
  /\ pc' = [pc EXCEPT ![r] = After("subscribe")]
  /\ signal_id' = [signal_id EXCEPT ![r] = r]
  /\ subs' = subs \cup {r}
  /\ UNCHANGED <<atStart, parent, sideVars, cancellable, alive, token, request_path, cancelled_id, handle_token,
                 links, callState, broker, sigQueue, response, result, delivered, finished,
                 closeCalls, unsubscribed, disconnected, freed, freedBy, uaf,
                 crashed, threadVars>>

\* access_camera, lines 188-190: g_signal_connect of cancelled_cb, which does not
\* run the handler for a cancellable that is cancelled already
AccessCameraConnect(r) ==
  /\ ~crashed
  /\ pc[r] = "connect"
  /\ pc' = [pc EXCEPT ![r] = After("connect")]
  /\ IF cancellable[r] # "none"
     THEN /\ cancelled_id' = [cancelled_id EXCEPT ![r] = r]
          /\ links' = links \cup {r}
     ELSE UNCHANGED <<cancelled_id, links>>
  /\ UNCHANGED <<atStart, parent, sideVars, cancellable, alive, token, request_path, signal_id, handle_token,
                 subs, callState, broker, sigQueue, response, result, delivered, finished,
                 closeCalls, unsubscribed, disconnected, freed, freedBy, uaf,
                 crashed, threadVars>>

\* A call that sends a token drawn anew as handle_token.
AccessCameraCallFreshToken(r) ==
  /\ ~crashed
  /\ pc[r] = "call"
  /\ pc' = [pc EXCEPT ![r] = After("call")]
  /\ handle_token' = [handle_token EXCEPT ![r] = TokenOf((token[r] + 1) % MaxToken)]
  /\ IF cancellable[r] = "cancelled"
     THEN /\ callState' = [callState EXCEPT ![r] = "cancelled"]
          /\ UNCHANGED broker
     ELSE /\ callState' = [callState EXCEPT ![r] = "pending"]
          /\ broker' = [broker EXCEPT ![r] = "received"]
  /\ UNCHANGED <<atStart, parent, sideVars, cancellable, alive, token, request_path,
                 signal_id, cancelled_id, subs, links, sigQueue, response, result,
                 delivered, finished, closeCalls, unsubscribed, disconnected, freed,
                 freedBy, uaf, crashed, threadVars>>

\* access_camera, lines 192-206: g_dbus_connection_call of AccessCamera with the
\* handle_token option. With a cancellable that is cancelled already the message
\* is not sent and the call completes with the cancelled error.
AccessCameraCall(r) ==
  /\ ~crashed
  /\ pc[r] = "call"
  /\ pc' = [pc EXCEPT ![r] = After("call")]
  /\ handle_token' = [handle_token EXCEPT ![r] = TokenOf(token[r])]
  /\ IF cancellable[r] = "cancelled"
     THEN /\ callState' = [callState EXCEPT ![r] = "cancelled"]
          /\ UNCHANGED broker
     ELSE /\ callState' = [callState EXCEPT ![r] = "pending"]
          /\ broker' = [broker EXCEPT ![r] = "received"]
  /\ UNCHANGED <<atStart, parent, sideVars, cancellable, alive, token, request_path, signal_id, cancelled_id,
                 subs, links, sigQueue, response, result, delivered, finished, closeCalls,
                 unsubscribed, disconnected, freed, freedBy, uaf, crashed, threadVars>>

\* The broker emits Response (code, results) on the path of the request it got
\* with r's call; the connection schedules the signal for every subscription
\* on that path (lines 177-186 name the path and the callback).
BrokerEmitResponse(r, code) ==
  /\ ~crashed
  /\ broker[r] = "received"
  /\ broker' = [broker EXCEPT ![r] = "responded"]
  /\ sigQueue' = sigQueue \cup
       {<<q, code>> : q \in {x \in subs : request_path[x] = RequestPath(Sender, handle_token[r])}}
  /\ UNCHANGED <<atStart, parent, sideVars, pc, token, handle_token, callState, heapVars, threadVars>>

\* The main loop dispatches a scheduled Response: the connection calls the
\* callback only if the subscription still exists.
DispatchResponse(r, code, ub) ==
  /\ ~crashed /\ MainIdle
  /\ <<r, code>> \in sigQueue
  /\ sigQueue' = sigQueue \ {<<r, code>>}
  /\ Set(IF r \in subs THEN response_received(State, r, code, ub) ELSE State)
  /\ UNCHANGED <<atStart, parent, sideVars, pc, token, handle_token, callState, broker, threadVars>>

\* The caller cancels its cancellable (g_cancellable_cancel): the "cancelled"
\* handlers run in the order they were connected, cancelled_cb (line 190) and
\* then that of the pending AccessCamera call (line 204), which completes the
\* call with the cancelled error.
Cancel(r, ub) ==
  /\ ~crashed /\ MainIdle
  /\ pc[r] = "started"
  /\ cancellable[r] = "live"
  /\ LET s1 == [State EXCEPT !.cancellable[r] = "cancelled"]
     IN Set(IF r \in links THEN cancelled_cb(s1, r, ub) ELSE s1)
  /\ callState' = [callState EXCEPT ![r] = IF @ = "pending" THEN "cancelled" ELSE @]
  /\ UNCHANGED <<atStart, parent, sideVars, pc, token, handle_token, broker, sigQueue, threadVars>>

\* The AccessCamera call completes, with a reply (err = "none") or an error, and
\* the main loop runs call_returned.
CallReturned(r, err, ub) ==
  /\ ~crashed /\ MainIdle
  /\ \/ callState[r] = "pending" /\ err \in {"none", "G_DBUS_ERROR"}
     \/ callState[r] = "cancelled" /\ err = "G_IO_ERROR_CANCELLED"
  /\ callState' = [callState EXCEPT ![r] = "done"]
  /\ Set(call_returned(State, r, err, ub))
  /\ UNCHANGED <<atStart, parent, sideVars, pc, token, handle_token, broker, sigQueue, threadVars>>

Next ==
  \/ \E r \in Requests, c \in {"none", "live", "cancelled"} : Start(r, NoParent, c)
  \/ \E r \in Requests, n \in Tokens : AccessCameraPath(r, n)
  \/ \E r \in Requests : AccessCameraSubscribe(r)
  \/ \E r \in Requests : AccessCameraConnect(r)
  \/ \E r \in Requests : AccessCameraCall(r)
  \/ \E r \in Requests, code \in Codes : BrokerEmitResponse(r, code)
  \/ \E r \in Requests, code \in Codes, ub \in UBOutcomes : DispatchResponse(r, code, ub)
  \/ \E r \in Requests, ub \in UBOutcomes : Cancel(r, ub)
  \/ \E r \in Requests, err \in Results, ub \in UBOutcomes : CallReturned(r, err, ub)

Spec == Init /\ [][Next]_vars

\* The main loop keeps running: access_camera runs to its end, a scheduled
\* Response is dispatched, and a call that was cancelled locally has its
\* completion callback run. What the caller and the broker do (a cancellation,
\* a Response, the reply to the call) is left to them.
Fairness ==
  \A r \in Requests :
    /\ WF_vars(\E n \in Tokens : AccessCameraPath(r, n))
    /\ WF_vars(AccessCameraSubscribe(r))
    /\ WF_vars(AccessCameraConnect(r))
    /\ WF_vars(AccessCameraCall(r))
    /\ WF_vars(\E code \in Codes, ub \in UBOutcomes : DispatchResponse(r, code, ub))
    /\ WF_vars(\E ub \in UBOutcomes : CallReturned(r, "G_IO_ERROR_CANCELLED", ub))

SpecFair == Spec /\ Fairness

\* ------------------------------------------------------------ threads
\* g_cancellable_cancel may be called from any thread, and runs cancelled_cb in
\* that thread. Here the handlers run statement by statement, response_received
\* in the main thread and cancelled_cb in the cancelling thread; neither takes a
\* lock, and g_signal_handler_disconnect does not wait for a running handler.

\* The main loop dispatches a scheduled Response and enters response_received.
ThreadDispatchResponse(r, code) ==
  /\ ~crashed /\ MainIdle
  /\ <<r, code>> \in sigQueue
  /\ sigQueue' = sigQueue \ {<<r, code>>}
  /\ IF r \in subs
     THEN /\ rpc' = [rpc EXCEPT ![r] = "disconnect"]
          /\ rcode' = [rcode EXCEPT ![r] = code]
     ELSE UNCHANGED <<rpc, rcode>>
  /\ UNCHANGED <<atStart, parent, sideVars, pc, token, handle_token, callState, broker, heapVars, kpc>>

\* response_received, lines 113-117
ThreadResponseDisconnect(r, ub) ==
  /\ ~crashed
  /\ rpc[r] = "disconnect"
  /\ LET s0 == Touch(State, r, ub)
     IN Set(IF s0.crashed THEN s0 ELSE rr_disconnect(s0, r))
  /\ rpc' = [rpc EXCEPT ![r] = "return"]
  /\ UNCHANGED <<atStart, parent, sideVars, pc, token, handle_token, callState, broker, sigQueue, rcode, kpc>>

\* response_received, lines 119-126
ThreadResponseReturn(r, ub) ==
  /\ ~crashed
  /\ rpc[r] = "return"
  /\ LET s0 == Touch(State, r, ub)
     IN Set(IF s0.crashed THEN s0 ELSE rr_return(s0, r, rcode[r]))
  /\ rpc' = [rpc EXCEPT ![r] = "free"]
  /\ UNCHANGED <<atStart, parent, sideVars, pc, token, handle_token, callState, broker, sigQueue, rcode, kpc>>

\* response_received, line 128
ThreadResponseFree(r, ub) ==
  /\ ~crashed
  /\ rpc[r] = "free"
  /\ LET s0 == Touch(State, r, ub)
     IN Set(IF s0.crashed THEN s0
            ELSE DestroyedBy(access_camera_call_free(s0, r), r, "response_received"))
  /\ rpc' = [rpc EXCEPT ![r] = "-"]
  /\ UNCHANGED <<atStart, parent, sideVars, pc, token, handle_token, callState, broker, sigQueue, rcode, kpc>>

\* Another thread cancels the cancellable: cancelled_cb is entered if it is
\* connected at that moment, and the pending AccessCamera call is cancelled.
ThreadCancel(r) ==
  /\ ~crashed
  /\ pc[r] = "started"
  /\ cancellable[r] = "live"
  /\ cancellable' = [cancellable EXCEPT ![r] = "cancelled"]
  /\ kpc' = [kpc EXCEPT ![r] = IF r \in links THEN "close" ELSE "-"]
  /\ callState' = [callState EXCEPT ![r] = IF @ = "pending" THEN "cancelled" ELSE @]
  /\ UNCHANGED <<atStart, parent, sideVars, pc, alive, token, request_path, signal_id, cancelled_id, handle_token,
                 subs, links, broker, sigQueue, response, result, delivered, finished,
                 closeCalls, unsubscribed, disconnected, freed, freedBy, uaf, crashed,
                 rpc, rcode>>

\* cancelled_cb, lines 137-146
ThreadCancelClose(r, ub) ==
  /\ ~crashed
  /\ kpc[r] = "close"
  /\ LET s0 == Touch(State, r, ub)
     IN Set(IF s0.crashed THEN s0 ELSE cc_close(s0, r))
  /\ kpc' = [kpc EXCEPT ![r] = "free"]
  /\ UNCHANGED <<atStart, parent, sideVars, pc, token, handle_token, callState, broker, sigQueue, rpc, rcode>>

\* cancelled_cb, line 148
ThreadCancelFree(r, ub) ==
  /\ ~crashed
  /\ kpc[r] = "free"
  /\ LET s0 == Touch(State, r, ub)
     IN Set(IF s0.crashed THEN s0
            ELSE DestroyedBy(access_camera_call_free(s0, r), r, "cancelled_cb"))
  /\ kpc' = [kpc EXCEPT ![r] = "-"]
  /\ UNCHANGED <<atStart, parent, sideVars, pc, token, handle_token, callState, broker, sigQueue, rpc, rcode>>

NextThreads ==
  \/ \E r \in Requests, c \in {"none", "live", "cancelled"} : Start(r, NoParent, c)
  \/ \E r \in Requests, n \in Tokens : AccessCameraPath(r, n)
  \/ \E r \in Requests : AccessCameraSubscribe(r)
  \/ \E r \in Requests : AccessCameraConnect(r)
  \/ \E r \in Requests : AccessCameraCall(r)
  \/ \E r \in Requests, code \in Codes : BrokerEmitResponse(r, code)
  \/ \E r \in Requests, code \in Codes : ThreadDispatchResponse(r, code)
  \/ \E r \in Requests, ub \in UBOutcomes : ThreadResponseDisconnect(r, ub)
  \/ \E r \in Requests, ub \in UBOutcomes : ThreadResponseReturn(r, ub)
  \/ \E r \in Requests, ub \in UBOutcomes : ThreadResponseFree(r, ub)
  \/ \E r \in Requests : ThreadCancel(r)
  \/ \E r \in Requests, ub \in UBOutcomes : ThreadCancelClose(r, ub)
  \/ \E r \in Requests, ub \in UBOutcomes : ThreadCancelFree(r, ub)
  \/ \E r \in Requests, err \in Results, ub \in UBOutcomes : CallReturned(r, err, ub)

SpecThreads == Init /\ [][NextThreads]_vars

\* ------------------------------------------------------------- finish
\* A caller calls xdp_portal_access_camera_finish on a portal pointer and a
\* GAsyncResult of its choice, lines 257-267.
Finish(portal, res) ==
  /\ ~finish_call.called
  /\ finish_call' = [called |-> TRUE, portal |-> portal, result |-> res,
                     ret |-> FinishCall(portal, res)]
  /\ UNCHANGED <<cameraVars, syncLog, gtkVars>>

NextFinish ==
  \E portal \in Portals \cup {NoPortal}, res \in AsyncResults : Finish(portal, res)

SpecFinish == Init /\ [][NextFinish]_vars

\* ----------------------------------------------- synchronous operations
\* The descriptor a failed xdp_portal_open_pipewire_remote_for_camera returns.
InvalidFd == -1

\* The descriptor attached to every reply that carries descriptors.
ReplyFd == 7

\* What g_dbus_connection_call_sync finds for the Properties.Get call: an error,
\* or a reply whose body has a tuple type and holds a boolean.
GetReplies == [ok : BOOLEAN, type : {"(v)", "(b)"}, value : BOOLEAN]

\* What g_dbus_connection_call_with_unix_fd_list_sync finds for the
\* OpenPipeWireRemote call: an error, or a reply "(h)" with an index and a list of
\* nfds descriptors; dup_ok tells whether the descriptor can be duplicated.
FdReplies == [ok : BOOLEAN, index : 0..MaxFds, nfds : 0..MaxFds, dup_ok : BOOLEAN]

\* xdp_portal_is_camera_present, lines 44-73. The reply type asked for (line 59)
\* is "b"; g_dbus_connection_call_sync fails the call when the reply's type is
\* another one.
xdp_portal_is_camera_present(portal, reply) ==
  IF portal \notin Portals
  THEN [ret |-> FALSE, bus_calls |-> 0, warned |-> FALSE, critical |-> TRUE]
  ELSE IF ~reply.ok \/ reply.type # "b"
  THEN [ret |-> FALSE, bus_calls |-> 1, warned |-> TRUE, critical |-> FALSE]
  ELSE [ret |-> reply.value, bus_calls |-> 1, warned |-> FALSE, critical |-> FALSE]

\* An open that makes the call a second time when the first failed.
xdp_portal_open_pipewire_remote_for_camera_retries(portal, reply) ==
  IF portal \notin Portals
  THEN [ret |-> InvalidFd, bus_calls |-> 0, warned |-> FALSE, critical |-> TRUE]
  ELSE IF ~reply.ok
  THEN [ret |-> InvalidFd, bus_calls |-> 2, warned |-> TRUE, critical |-> FALSE]
  ELSE IF reply.index >= reply.nfds
  THEN [ret |-> InvalidFd, bus_calls |-> 1, warned |-> FALSE, critical |-> TRUE]
  ELSE [ret |-> IF reply.dup_ok THEN ReplyFd ELSE InvalidFd,
        bus_calls |-> 1, warned |-> FALSE, critical |-> FALSE]

\* xdp_portal_open_pipewire_remote_for_camera, lines 280-315. g_unix_fd_list_get
\* (line 314) returns -1 for an index outside the list and when the descriptor
\* cannot be duplicated; the descriptor returned is a duplicate of the reply's.
xdp_portal_open_pipewire_remote_for_camera(portal, reply) ==
  IF portal \notin Portals
  THEN [ret |-> InvalidFd, bus_calls |-> 0, warned |-> FALSE, critical |-> TRUE]
  ELSE IF ~reply.ok
  THEN [ret |-> InvalidFd, bus_calls |-> 1, warned |-> TRUE, critical |-> FALSE]
  ELSE IF reply.index >= reply.nfds
  THEN [ret |-> InvalidFd, bus_calls |-> 1, warned |-> FALSE, critical |-> TRUE]
  ELSE [ret |-> IF reply.dup_ok THEN ReplyFd ELSE InvalidFd,
        bus_calls |-> 1, warned |-> FALSE, critical |-> FALSE]

\* A caller calls xdp_portal_is_camera_present and the bus answers with reply.
IsCameraPresent(portal, reply) ==
  /\ Len(syncLog) < MaxSyncCalls
  /\ syncLog' = Append(syncLog, [op |-> "is_camera_present", portal |-> portal,
                                  ok |-> reply.ok,
                                  out |-> xdp_portal_is_camera_present(portal, reply)])
  /\ UNCHANGED <<cameraVars, finish_call, gtkVars>>

\* A caller calls xdp_portal_open_pipewire_remote_for_camera and the bus answers
\* with reply.
OpenPipewireRemote(portal, reply) ==
  /\ Len(syncLog) < MaxSyncCalls
  /\ syncLog' = Append(syncLog, [op |-> "open_pipewire_remote", portal |-> portal,
                                  ok |-> reply.ok,
                                  out |-> xdp_portal_open_pipewire_remote_for_camera(portal, reply)])
  /\ UNCHANGED <<cameraVars, finish_call, gtkVars>>

NextSync ==
  \/ \E portal \in Portals \cup {NoPortal}, reply \in GetReplies :
       IsCameraPresent(portal, reply)
  \/ \E portal \in Portals \cup {NoPortal}, reply \in FdReplies :
       OpenPipewireRemote(portal, reply)

SpecSync == Init /\ [][NextSync]_vars

\* ------------------------------------------------------ GTK parent handle
\* The windowing systems of a GTK display: X11, Wayland with and without the
\* xdg-foreign exporter, and any other.
Displays == {"x11", "wayland", "wayland-no-exporter", "other"}
IsWayland(d) == d \in {"wayland", "wayland-no-exporter"}

Xids == {0, 1, MaxXid}
WaylandHandles == {"h1", "h2"}

HexDigits == <<"0", "1", "2", "3", "4", "5", "6", "7", "8", "9", "a", "b", "c", "d", "e", "f">>

\* The digits "%x" prints for n.
RECURSIVE Hex(_)
Hex(n) ==
  IF n < Len(HexDigits) THEN <<HexDigits[n + 1]>>
  ELSE Append(Hex(n \div Len(HexDigits)), HexDigits[(n % Len(HexDigits)) + 1])

\* lines 56-57: g_strdup_printf ("x11:%x", xid); the cast to guint32 keeps an
\* X11 id as it is (an X11 id has 29 bits)
X11Handle(xid) == <<"x11:">> \o Hex(xid)

\* line 39: g_strdup_printf ("wayland:%s", handle)
WaylandHandle(handle) == <<"wayland:", handle>>

\* The invocations so far of the callback given to export e.
Fired(e) == {i \in 1..Len(cbLog) : cbLog[i].export = e}

\* xdp_parent_new_gtk, lines 99-106, on a window of display d with X11 id x
\* (only an X11 window has one). Parents are numbered in the order they are made.
XdpParentNewGtk(p, d, x) ==
  /\ gtkParents[p].display = "none"
  /\ d # "x11" => x = 0
  /\ \A q \in Parents : q < p => gtkParents[q].display # "none"
  /\ gtkParents' = [gtkParents EXCEPT ![p] = [NoGtkParent EXCEPT !.display = d, !.xid = x]]
  /\ UNCHANGED <<cameraVars, finish_call, syncLog, exports, unexports, cbLog>>

\* An export that invokes the callback at once on Wayland as well.
ExportGtkInline(p) ==
  LET e == Len(exports) + 1
      d == gtkParents[p].display
  IN /\ Len(exports) < MaxExports
     /\ d # "none"
     /\ IF d = "x11"
        THEN /\ cbLog' = Append(cbLog, [export |-> e, handle |-> X11Handle(gtkParents[p].xid)])
             /\ exports' = Append(exports, [parent |-> p, display |-> d, ret |-> TRUE,
                                            fired_at_return |-> 1])
             /\ UNCHANGED gtkParents
        ELSE IF IsWayland(d)
        THEN LET ok == d = "wayland" /\ ~gtkParents[p].exported
             IN /\ gtkParents' = [gtkParents EXCEPT ![p].callback = e,
                                                    ![p].exported = @ \/ ok,
                                                    ![p].handle_sent = IF ok THEN FALSE ELSE @]
                /\ cbLog' = Append(cbLog, [export |-> e, handle |-> WaylandHandle("h1")])
                /\ exports' = Append(exports, [parent |-> p, display |-> d, ret |-> ok,
                                               fired_at_return |-> 1])
        ELSE /\ exports' = Append(exports, [parent |-> p, display |-> d, ret |-> FALSE,
                                            fired_at_return |-> 0])
             /\ UNCHANGED <<gtkParents, cbLog>>
     /\ UNCHANGED <<cameraVars, finish_call, syncLog, unexports>>

\* _xdp_parent_export_gtk, lines 46-76, called with a callback; the export is
\* numbered e and its callback is known by that number. On X11 the callback is
\* invoked before the function returns (lines 53-60). On Wayland the callback is
\* stored in the parent (lines 66-67) and gdk_wayland_window_export_handle is
\* asked for the handle (line 68): GDK refuses, returning FALSE, when the server
\* has no exporter or the window is exported already. Otherwise lines 71-72.
ExportGtk(p) ==
  LET e == Len(exports) + 1
      d == gtkParents[p].display
  IN /\ Len(exports) < MaxExports
     /\ d # "none"
     /\ IF d = "x11"
        THEN /\ cbLog' = Append(cbLog, [export |-> e, handle |-> X11Handle(gtkParents[p].xid)])
             /\ exports' = Append(exports, [parent |-> p, display |-> d, ret |-> TRUE,
                                            fired_at_return |-> 1])
             /\ UNCHANGED gtkParents
        ELSE IF IsWayland(d)
        THEN LET ok == d = "wayland" /\ ~gtkParents[p].exported
             IN /\ gtkParents' = [gtkParents EXCEPT ![p].callback = e,
                                                    ![p].exported = @ \/ ok,
                                                    ![p].handle_sent = IF ok THEN FALSE ELSE @]
                /\ exports' = Append(exports, [parent |-> p, display |-> d, ret |-> ok,
                                               fired_at_return |-> 0])
                /\ UNCHANGED cbLog
        ELSE /\ exports' = Append(exports, [parent |-> p, display |-> d, ret |-> FALSE,
                                            fired_at_return |-> 0])
             /\ UNCHANGED <<gtkParents, cbLog>>
     /\ UNCHANGED <<cameraVars, finish_call, syncLog, unexports>>

\* The display server sends the handle of the window's export, once, and GDK
\* calls _xdp_parent_exported_wayland, lines 32-44, which invokes the callback
\* the parent holds.
ExportedWayland(p, handle) ==
  /\ gtkParents[p].exported /\ ~gtkParents[p].handle_sent
  /\ gtkParents' = [gtkParents EXCEPT ![p].handle_sent = TRUE]
  /\ cbLog' = Append(cbLog, [export |-> gtkParents[p].callback,
                              handle |-> WaylandHandle(handle)])
  /\ UNCHANGED <<cameraVars, finish_call, syncLog, exports, unexports>>

\* _xdp_parent_unexport_gtk, lines 78-87: on Wayland the window's export is
\* destroyed, and its handle is no longer delivered.
UnexportGtk(p) ==
  /\ gtkParents[p].display # "none"
  /\ Len(unexports) < MaxExports
  /\ unexports' = Append(unexports, p)
  /\ IF IsWayland(gtkParents[p].display)
     THEN gtkParents' = [gtkParents EXCEPT ![p].exported = FALSE, ![p].handle_sent = FALSE]
     ELSE UNCHANGED gtkParents
  /\ UNCHANGED <<cameraVars, finish_call, syncLog, exports, cbLog>>

NextGtk ==
  \/ \E p \in Parents, d \in Displays, x \in Xids : XdpParentNewGtk(p, d, x)
  \/ \E p \in Parents : ExportGtk(p)
  \/ \E p \in Parents, handle \in WaylandHandles : ExportedWayland(p, handle)
  \/ \E p \in Parents : UnexportGtk(p)

SpecGtk == Init /\ [][NextGtk]_vars

\* ------------------------------------------------- requests with a parent
\* The application has made its parents, the first on X11 and the others on
\* Wayland, and starts every request with one of them.
InitParent ==
  /\ pc = [r \in Requests |-> "idle"]
  /\ cancellable = [r \in Requests |-> "none"]
  /\ alive = [r \in Requests |-> FALSE]
  /\ token = [r \in Requests |-> 0]
  /\ request_path = [r \in Requests |-> <<>>]
  /\ signal_id = [r \in Requests |-> 0]
  /\ cancelled_id = [r \in Requests |-> 0]
  /\ handle_token = [r \in Requests |-> <<>>]
  /\ subs = {}
  /\ links = {}
  /\ callState = [r \in Requests |-> "unsent"]
  /\ broker = [r \in Requests |-> "none"]
  /\ sigQueue = {}
  /\ response = [r \in Requests |-> NoResponse]
  /\ result = [r \in Requests |-> "none"]
  /\ delivered = [r \in Requests |-> 0]
  /\ finished = [r \in Requests |-> "none"]
  /\ closeCalls = [r \in Requests |-> <<>>]
  /\ unsubscribed = [r \in Requests |-> 0]
  /\ disconnected = [r \in Requests |-> 0]
  /\ freed = [r \in Requests |-> 0]
  /\ freedBy = [r \in Requests |-> "none"]
  /\ uaf = [r \in Requests |-> FALSE]
  /\ crashed = FALSE
  /\ rpc = [r \in Requests |-> "-"]
  /\ rcode = [r \in Requests |-> 0]
  /\ kpc = [r \in Requests |-> "-"]
  /\ atStart = [r \in Requests |-> "none"]
  /\ parent = [r \in Requests |-> NoParent]
  /\ finish_call = NoFinishCall
  /\ syncLog = <<>>
  /\ gtkParents = [p \in Parents |->
                     IF p = 1 THEN [NoGtkParent EXCEPT !.display = "x11", !.xid = MaxXid]
                     ELSE [NoGtkParent EXCEPT !.display = "wayland"]]
  /\ exports = <<>>
  /\ unexports = <<>>
  /\ cbLog = <<>>

NextParent ==
  \/ \E r \in Requests, p \in Parents, c \in {"none", "live", "cancelled"} : Start(r, p, c)
  \/ \E r \in Requests, n \in Tokens : AccessCameraPath(r, n)
  \/ \E r \in Requests : AccessCameraSubscribe(r)
  \/ \E r \in Requests : AccessCameraConnect(r)
  \/ \E r \in Requests : AccessCameraCall(r)
  \/ \E r \in Requests, code \in Codes : BrokerEmitResponse(r, code)
  \/ \E r \in Requests, code \in Codes, ub \in UBOutcomes : DispatchResponse(r, code, ub)
  \/ \E r \in Requests, ub \in UBOutcomes : Cancel(r, ub)
  \/ \E r \in Requests, err \in Results, ub \in UBOutcomes : CallReturned(r, err, ub)

SpecParent == InitParent /\ [][NextParent]_vars

\* ------------------------------------------------------------- claims
\* The request of r has reached a terminal state: its call was destroyed.
Destroyed(r) == pc[r] = "started" /\ ~alive[r]

\* Nothing is left to happen for r: its call is destroyed, the AccessCamera call
\* has completed and no Response is scheduled for it.
Settled(r) ==
  /\ Destroyed(r)
  /\ callState[r] = "done"
  /\ \A code \in Codes : <<r, code>> \notin sigQueue

\* C1: every started request has its caller's callback invoked exactly once:
\* never more than once, and once by the time nothing is left to happen for it.
C1_ExactlyOnce ==
  \A r \in Requests : delivered[r] <= 1 /\ (Settled(r) => delivered[r] = 1)

\* C2: a request that the broker received and that response_received resolved
\* has the outcome of the response code: 0 gives TRUE, 1 the cancelled error,
\* any other code the failed error, delivered once, with or without a
\* cancellable, and finish returns that outcome.
C2_ResponseMapping ==
  \A r \in Requests :
    (freedBy[r] = "response_received" /\ broker[r] # "none") =>
      /\ delivered[r] = 1
      /\ finished[r] = result[r]
      /\ response[r] = 0 => result[r] = "TRUE"
      /\ response[r] = 1 => result[r] = "G_IO_ERROR_CANCELLED"
      /\ response[r] \notin {0, 1} => result[r] = "G_IO_ERROR_FAILED"

C2_Witness ==
  \E r \in Requests :
    /\ freedBy[r] = "response_received" /\ broker[r] # "none"
    /\ cancellable[r] = "none" /\ response[r] = 1
    /\ finished[r] = "G_IO_ERROR_CANCELLED"

\* C3: when cancelled_cb destroys a request, it has sent Close to the request's
\* path and has delivered the cancelled outcome, in that step.
C3_CancelDelivers ==
  \A r \in Requests :
    freedBy[r] = "cancelled_cb" =>
      /\ closeCalls[r] = <<request_path[r]>>
      /\ delivered[r] = 1
      /\ result[r] = "G_IO_ERROR_CANCELLED"

\* A step that emits or dispatches a Response on the path of r.
ResponseStep(r) ==
  \/ \E code \in Codes, ub \in UBOutcomes : DispatchResponse(r, code, ub)
  \/ \E q \in Requests, code \in Codes :
       /\ BrokerEmitResponse(q, code)
       /\ RequestPath(Sender, handle_token[q]) = request_path[r]

\* C4: after cancelled_cb destroyed a request, a Response emitted or dispatched
\* on its path neither invokes the callback nor changes the outcome, and none
\* is scheduled for the request any more.
C4_LateResponseIgnored ==
  [][\A r \in Requests :
       (freedBy[r] = "cancelled_cb" /\ ResponseStep(r)) =>
         /\ delivered'[r] = delivered[r]
         /\ result'[r] = result[r]
         /\ finished'[r] = finished[r]
         /\ \A code \in Codes : <<r, code>> \in sigQueue' => <<r, code>> \in sigQueue]_vars

C4_Witness ==
  \E r \in Requests :
    /\ freedBy[r] = "cancelled_cb"
    /\ broker[r] = "responded"
    /\ \A code \in Codes : <<r, code>> \notin sigQueue
    /\ callState[r] = "done"

\* C5: once response_received has resolved a request, a later cancellation of
\* its cancellable sends no Close, delivers no second outcome and releases no
\* handle a second time.
C5_CancelAfterResponseNoOp ==
  \A r \in Requests :
    (freedBy[r] = "response_received" /\ broker[r] # "none"
       /\ cancellable[r] = "cancelled") =>
      /\ closeCalls[r] = <<>>
      /\ delivered[r] = 1
      /\ unsubscribed[r] = 1 /\ disconnected[r] = 1 /\ freed[r] = 1
      /\ ~uaf[r]

\* C6: a destroyed request has released its signal subscription exactly once
\* and its cancellation link (acquired when a cancellable was given) exactly
\* once, and neither is live.
C6_ReleasedOnce ==
  \A r \in Requests :
    /\ unsubscribed[r] <= 1 /\ disconnected[r] <= 1
    /\ Destroyed(r) =>
         /\ r \notin subs /\ r \notin links
         /\ unsubscribed[r] = 1
         /\ disconnected[r] = IF cancellable[r] = "none" THEN 0 ELSE 1

\* The subscription of r exists or has existed.
Subscribed(r) == r \in subs \/ unsubscribed[r] > 0

\* C7: the path is computed before the subscription, and the subscription is
\* made before the AccessCamera call is issued.
C7_SubscribeBeforeCall ==
  \A r \in Requests :
    /\ Subscribed(r) => request_path[r] # <<>>
    /\ callState[r] # "unsent" => Subscribed(r) /\ signal_id[r] # 0
    /\ broker[r] # "none" => Subscribed(r)

C7_Witness ==
  \E r \in Requests :
    pc[r] = "started" /\ callState[r] = "pending" /\ r \in subs

\* C8: a transport error of the AccessCamera call on a pending request delivers
\* that error once and releases the subscription and the cancellation link.
C8_CallErrorReleases ==
  [][\A r \in Requests, ub \in UBOutcomes :
       (alive[r] /\ CallReturned(r, "G_DBUS_ERROR", ub)) =>
         /\ result'[r] = "G_DBUS_ERROR" /\ finished'[r] = "G_DBUS_ERROR"
         /\ delivered'[r] = 1
         /\ ~alive'[r] /\ r \notin subs' /\ r \notin links'
         /\ unsubscribed'[r] = 1]_vars

C8_Witness ==
  \E r \in Requests :
    /\ freedBy[r] = "call_returned" /\ result[r] = "G_DBUS_ERROR"
    /\ cancellable[r] = "live" /\ disconnected[r] = 1 /\ ~uaf[r]

\* The request of r is outstanding: started and not yet destroyed.
Outstanding(r) == request_path[r] # <<>> /\ alive[r]

\* C9: requests outstanding at the same time have distinct paths, and a
\* scheduled Response goes only to the request the broker answered.
C9_DistinctPaths ==
  \A r, q \in Requests :
    (r # q /\ Outstanding(r) /\ Outstanding(q)) => request_path[r] # request_path[q]

\* C10: with the cancellation handler on another thread, only one of
\* response_received and cancelled_cb acts on a request: never has the one
\* read the response and returned the task while the other sent Close.
C10_OneHandlerActs ==
  \A r \in Requests : ~(response[r] # NoResponse /\ closeCalls[r] # <<>>)

\* C12: a request started with a cancellable that is cancelled already ends as a
\* cancellation does: once nothing is left to happen for it, the cancelled
\* outcome was delivered once, Close was sent to its path, and the subscription
\* and the cancellation link are released.
C12_PreCancelledCloses ==
  \A r \in Requests :
    (atStart[r] = "cancelled" /\ Settled(r)) =>
      /\ delivered[r] = 1 /\ finished[r] = "G_IO_ERROR_CANCELLED"
      /\ closeCalls[r] = <<request_path[r]>>
      /\ r \notin subs /\ r \notin links

\* C11: xdp_portal_access_camera_finish, given a task whose source tag is not
\* xdp_portal_access_camera or whose source object is not the given portal,
\* fails with a precondition violation: it returns FALSE with no error set,
\* whatever the task holds.
C11_FinishRejectsForeign ==
  LET res == finish_call.result IN
  (/\ finish_call.called
   /\ res.is_task
   /\ \/ res.source_tag # "xdp_portal_access_camera"
      \/ res.source_object # finish_call.portal)
    => /\ finish_call.ret.critical
       /\ finish_call.ret.value = FALSE
       /\ finish_call.ret.error = "none"

C11_Witness ==
  /\ finish_call.called
  /\ finish_call.result.is_task
  /\ finish_call.result.source_object = finish_call.portal
  /\ finish_call.portal \in Portals
  /\ finish_call.result.source_tag = "other_start"
  /\ finish_call.result.result = "TRUE"
  /\ finish_call.result.cancellable = "none"
  /\ finish_call.ret = PreconditionViolation

\* C13: once the AccessCamera call is issued, its handle_token option is the
\* last component of the request path, and the path is the fixed prefix, the
\* portal's sender name, a slash and that token; a path once set is never
\* changed by any step.
C13_TokenMatchesPath ==
  /\ [](\A r \in Requests :
          callState[r] # "unsent" =>
            /\ handle_token[r] = request_path[r][Len(request_path[r])]
            /\ handle_token[r] = <<"portal", token[r]>>
            /\ request_path[r] = <<REQUEST_PATH_PREFIX, Sender, "/", handle_token[r]>>)
  /\ [][\A r \in Requests :
          request_path[r] # <<>> => request_path'[r] = request_path[r]]_vars

C13_Witness ==
  \E r \in Requests :
    /\ Settled(r) /\ freedBy[r] = "response_received"
    /\ handle_token[r] = <<"portal", 1>>
    /\ request_path[r] = <<REQUEST_PATH_PREFIX, "1_42", "/", <<"portal", 1>>>>

\* The sentinel a synchronous operation returns on failure.
Sentinel(op) == IF op = "is_camera_present" THEN FALSE ELSE InvalidFd

\* C14: each synchronous operation on a portal makes exactly one bus call, and
\* when that call fails it returns its sentinel (FALSE for presence, -1 for the
\* descriptor) with a warning and no second call; no step of such an operation
\* creates a call or a signal subscription or touches a request.
C14_SyncBypass ==
  /\ [](\A i \in 1..Len(syncLog) :
          syncLog[i].portal \in Portals =>
            /\ syncLog[i].out.bus_calls = 1
            /\ ~syncLog[i].ok =>
                 /\ syncLog[i].out.ret = Sentinel(syncLog[i].op)
                 /\ syncLog[i].out.warned)
  /\ [][syncLog' # syncLog =>
          /\ alive' = alive /\ subs' = subs /\ links' = links
          /\ callState' = callState /\ pc' = pc]_vars

C14_Witness ==
  /\ Len(syncLog) = 2
  /\ syncLog[1].op = "open_pipewire_remote" /\ ~syncLog[1].ok
  /\ syncLog[1].portal \in Portals /\ syncLog[1].out.ret = -1
  /\ syncLog[2].op = "is_camera_present" /\ ~syncLog[2].ok
  /\ syncLog[2].portal \in Portals /\ syncLog[2].out.ret = FALSE
  /\ subs = {} /\ \A r \in Requests : ~alive[r]

\* C15: the callback given to an export is invoked at most once. On X11 it was
\* invoked once, with an x11: handle, when export returned TRUE; on Wayland it
\* was not invoked when export returned, and an invocation made later carries a
\* wayland: handle; on any other windowing system export returned FALSE and the
\* callback is never invoked.
C15_ExportCallback ==
  \A e \in 1..Len(exports) :
    /\ Cardinality(Fired(e)) <= 1
    /\ exports[e].display = "x11" =>
         /\ exports[e].ret = TRUE /\ exports[e].fired_at_return = 1
         /\ \A i \in Fired(e) : cbLog[i].handle[1] = "x11:"
    /\ IsWayland(exports[e].display) =>
         /\ exports[e].fired_at_return = 0
         /\ \A i \in Fired(e) : cbLog[i].handle[1] = "wayland:"
    /\ exports[e].display = "other" =>
         /\ exports[e].ret = FALSE /\ Fired(e) = {}

C15_Witness ==
  /\ Len(exports) = 2 /\ Len(cbLog) = 2
  /\ exports[1].display = "wayland" /\ exports[1].ret = TRUE
  /\ exports[2].display = "x11" /\ exports[2].ret = TRUE
  /\ cbLog[1] = [export |-> 2, handle |-> <<"x11:", "1", "a">>]
  /\ cbLog[2] = [export |-> 1, handle |-> <<"wayland:", "h2">>]

\* The exports of parent p whose callback has delivered a handle.
ExportedHandles(p) == {e \in 1..Len(exports) : exports[e].parent = p /\ Fired(e) # {}}

\* C16: a request started with a parent has not issued its AccessCamera call
\* before an export of the parent has delivered its handle, and when the
\* request is destroyed every export of its parent has been closed by unexport.
C16_ParentExportedBeforeCall ==
  \A r \in Requests :
    parent[r] # NoParent =>
      /\ callState[r] # "unsent" => ExportedHandles(parent[r]) # {}
      /\ Destroyed(r) =>
           \A e \in 1..Len(exports) :
             exports[e].parent = parent[r] => \E i \in 1..Len(unexports) : unexports[i] = parent[r]

\* C17: no handler uses a call that access_camera_call_free has destroyed:
\* response_received, cancelled_cb and call_returned never read or free the call
\* of a destroyed request.
C17_NoUseAfterFree ==
  \A r \in Requests : ~uaf[r] /\ freed[r] <= 1

\* C18: a reply without error to the AccessCamera call changes nothing in the
\* request: the step that runs call_returned on it leaves the call allocated
\* or freed as it was, delivers no outcome, and leaves the signal subscription,
\* the cancellation link and the request path as they were.
C18_ReplyChangesNothing ==
  [][\A r \in Requests, ub \in UBOutcomes :
       CallReturned(r, "none", ub) =>
         /\ alive' = alive /\ freed' = freed /\ uaf' = uaf /\ crashed' = crashed
         /\ result' = result /\ delivered' = delivered /\ finished' = finished
         /\ subs' = subs /\ signal_id' = signal_id /\ unsubscribed' = unsubscribed
         /\ links' = links /\ cancelled_id' = cancelled_id /\ disconnected' = disconnected
         /\ request_path' = request_path /\ closeCalls' = closeCalls]_vars

C18_Witness ==
  \E r \in Requests :
    /\ callState[r] = "done" /\ alive[r]
    /\ result[r] = "none" /\ delivered[r] = 0
    /\ r \in subs /\ r \in links /\ request_path[r] # <<>>

\* One of the three triggers has occurred for the started request of r: a
\* Response on its path is scheduled for it, its cancellable is cancelled, or
\* the AccessCamera call has failed.
Triggered(r) ==
  /\ pc[r] = "started"
  /\ \/ \E code \in Codes : <<r, code>> \in sigQueue
     \/ cancellable[r] = "cancelled"
     \/ result[r] = "G_DBUS_ERROR"

\* The request of r is in a terminal state: destroyed, its outcome delivered
\* once, no subscription left.
Terminal(r) == Destroyed(r) /\ delivered[r] = 1 /\ r \notin subs /\ r \notin links

\* A step in which one of the triggers acts on r.
TriggerStep(r) ==
  \/ \E code \in Codes, ub \in UBOutcomes : DispatchResponse(r, code, ub)
  \/ \E ub \in UBOutcomes : Cancel(r, ub)
  \/ \E err \in Results \ {"none"}, ub \in UBOutcomes : CallReturned(r, err, ub)

\* C19: with the main loop running, as long as the process lives, a started
\* request for which a trigger occurs reaches a terminal state with its outcome
\* delivered; and a request is destroyed by no step other than a trigger's.
C19_TriggeredTerminates ==
  /\ \A r \in Requests : Triggered(r) ~> (Terminal(r) \/ crashed)
  /\ [][\A r \in Requests : (alive[r] /\ ~alive'[r]) => TriggerStep(r)]_vars

====
